---- MODULE Spec2Model ----
(***************************************************************************)
(* Model of include/hermes/BCGen/HBC/BytecodeFileFormat.h: the bytecode    *)
(* file header, the compact string table entry, the compact function       *)
(* header with its overflow indirection, and the population of             *)
(* BytecodeFileFields from a buffer.                                       *)
(*                                                                         *)
(* TLC integers are 32-bit signed, so a uint32_t of the program is the     *)
(* pair <<high 16 bits, low 16 bits>>; bit-fields of at most 25 bits are   *)
(* plain naturals.                                                         *)
(***************************************************************************)
EXTENDS Integers, Sequences, FiniteSets, TLC

VARIABLES large, small, fpc, arg, ret,
          entry, overflowOffset, sentry, spc,
          fileHeader, buffer, expectedForm, fields, pop, qpc

funcVars == <<large, small, fpc, arg, ret>>
strVars == <<entry, overflowOffset, sentry, spc>>
fileVars == <<fileHeader, buffer, expectedForm, fields, pop, qpc>>
vars == <<funcVars, strVars, fileVars>>

(* no uint32_t: nothing passed or returned yet *)
NoU32 == <<>>

-----------------------------------------------------------------------------
(* uint32_t arithmetic on <<hi, lo>> pairs *)

RECURSIVE Pow2(_)
Pow2(n) == IF n = 0 THEN 1 ELSE 2 * Pow2(n - 1)

W16 == Pow2(16)

U32(hi, lo) == <<hi, lo>>
Hi(v) == v[1]
Lo(v) == v[2]

(* a natural below 2^31 as a uint32_t *)
FromNat(n) == <<n \div W16, n % W16>>

U32Gt(a, b) == Hi(a) > Hi(b) \/ (Hi(a) = Hi(b) /\ Lo(a) > Lo(b))
U32Lt(a, b) == U32Gt(b, a)

RECURSIVE BitOr(_, _)
BitOr(a, b) ==
  IF a = 0 THEN b
  ELSE IF b = 0 THEN a
  ELSE (IF a % 2 = 1 \/ b % 2 = 1 THEN 1 ELSE 0) + 2 * BitOr(a \div 2, b \div 2)

RECURSIVE BitAnd(_, _)
BitAnd(a, b) ==
  IF a = 0 \/ b = 0 THEN 0
  ELSE (IF a % 2 = 1 /\ b % 2 = 1 THEN 1 ELSE 0) + 2 * BitAnd(a \div 2, b \div 2)

U32Or(a, b) == <<BitOr(Hi(a), Hi(b)), BitOr(Lo(a), Lo(b))>>
U32And(a, b) == <<BitAnd(Hi(a), Hi(b)), BitAnd(Lo(a), Lo(b))>>
(* v >> 16 and v << 16, in 32 bits *)
U32Shr16(v) == <<0, Hi(v)>>
U32Shl16(v) == <<Lo(v), 0>>

(* Assignment of a uint32_t to a bit-field of the given width keeps the low bits. *)
StoreBits(v, bits) ==
  IF bits >= 16 THEN (Hi(v) % Pow2(bits - 16)) * W16 + Lo(v)
  ELSE Lo(v) % Pow2(bits)

-----------------------------------------------------------------------------
(* FunctionHeaderFlag, FUNC_HEADER_FIELDS, FunctionHeader, SmallFuncHeader *)

(* FunctionHeaderFlag(): flags = 0 *)
FunctionHeaderFlag ==
  [strictMode |-> FALSE, hasExceptionHandler |-> FALSE,
   hasDebugInfo |-> FALSE, overflowed |-> FALSE]

(* V(api_type, store_type, name, bits), in declaration order; api and store *)
(* are the widths of the two types.                                         *)
FUNC_HEADER_FIELDS ==
  << [api |-> 32, store |-> 32, name |-> "offset", bits |-> 25],
     [api |-> 32, store |-> 32, name |-> "paramCount", bits |-> 7],
     [api |-> 32, store |-> 32, name |-> "bytecodeSizeInBytes", bits |-> 15],
     [api |-> 32, store |-> 32, name |-> "functionName", bits |-> 17],
     [api |-> 32, store |-> 32, name |-> "infoOffset", bits |-> 25],
     [api |-> 32, store |-> 32, name |-> "frameSize", bits |-> 7],
     [api |-> 32, store |-> 8, name |-> "environmentSize", bits |-> 8],
     [api |-> 8, store |-> 8, name |-> "highestReadCacheIndex", bits |-> 8],
     [api |-> 8, store |-> 8, name |-> "highestWriteCacheIndex", bits |-> 8] >>

NumFields == Len(FUNC_HEADER_FIELDS)

(* FunctionHeader(size, paramCount, frameSize, envSize, functionNameID,     *)
(* hiRCacheIndex, hiWCacheIndex): offset and infoOffset start at 0, flags{} *)
FunctionHeader(size, paramCount, frameSize, envSize, functionNameID, hiRCacheIndex, hiWCacheIndex) ==
  [offset |-> FromNat(0),
   paramCount |-> paramCount,
   bytecodeSizeInBytes |-> size,
   functionName |-> functionNameID,
   infoOffset |-> FromNat(0),
   frameSize |-> frameSize,
   environmentSize |-> envSize,
   highestReadCacheIndex |-> hiRCacheIndex,
   highestWriteCacheIndex |-> hiWCacheIndex,
   flags |-> FunctionHeaderFlag]

(* std::memset(this, 0, sizeof(SmallFuncHeader)) *)
ZeroSmallFuncHeader ==
  [offset |-> 0, paramCount |-> 0, bytecodeSizeInBytes |-> 0, functionName |-> 0,
   infoOffset |-> 0, frameSize |-> 0, environmentSize |-> 0,
   highestReadCacheIndex |-> 0, highestWriteCacheIndex |-> 0,
   flags |-> FunctionHeaderFlag]

(* setLargeHeaderOffset with the high half masked to 12 bits                *)
setLargeHeaderOffset_NarrowHigh(s, largeHeaderOffset) ==
  [s EXCEPT !.flags.overflowed = TRUE,
            !.offset = StoreBits(U32And(largeHeaderOffset, U32(0, 65535)), 25),
            !.infoOffset = StoreBits(U32And(U32Shr16(largeHeaderOffset), U32(0, 4095)), 25)]

(* setLargeHeaderOffset: the flag, then the low half in offset and the high *)
(* half in infoOffset, both 25-bit fields.                                  *)
setLargeHeaderOffset(s, largeHeaderOffset) ==
  [s EXCEPT !.flags.overflowed = TRUE,
            !.offset = StoreBits(U32And(largeHeaderOffset, U32(0, 65535)), 25),
            !.infoOffset = StoreBits(U32Shr16(largeHeaderOffset), 25)]

(* (infoOffset << 16) & offset *)
getLargeHeaderOffset_And(s) ==
  U32And(U32Shl16(FromNat(s.infoOffset)), FromNat(s.offset))

(* getLargeHeaderOffset: (infoOffset << 16) | offset, returned as uint32_t.  *)
(* The bit-fields promote to int; after setLargeHeaderOffset infoOffset is   *)
(* below 2^16, so the shifted value fits 32 bits and the conversion of the   *)
(* result to uint32_t is the same 32 bits on every build.                    *)
getLargeHeaderOffset(s) ==
  U32Or(U32Shl16(FromNat(s.infoOffset)), FromNat(s.offset))

(* large.name >= (1U << bits) - 1 *)
Exceeds_OffByOne(v, bits) == U32Gt(v, FromNat(Pow2(bits) - 2))

(* large.name > (1U << bits) - 1 *)
Exceeds(v, bits) == U32Gt(v, FromNat(Pow2(bits) - 1))

(* CHECK_COPY_FIELD expanded over FUNC_HEADER_FIELDS from field i on: the   *)
(* first field that does not fit stores the large header's offset and       *)
(* returns; a field that fits is copied.                                    *)
RECURSIVE CHECK_COPY_FIELD(_, _, _)
CHECK_COPY_FIELD(s, lg, i) ==
  IF i > NumFields THEN s
  ELSE LET f == FUNC_HEADER_FIELDS[i] IN
       IF Exceeds(lg[f.name], f.bits)
       THEN setLargeHeaderOffset(s, lg.infoOffset)
       ELSE CHECK_COPY_FIELD([s EXCEPT ![f.name] = StoreBits(lg[f.name], f.bits)],
                             lg, i + 1)

(* SmallFuncHeader without the early return: the fields after the one that  *)
(* did not fit are still copied                                             *)
SmallFuncHeader_NoReturn(lg) ==
  LET over == \E i \in 1..NumFields :
                Exceeds(lg[FUNC_HEADER_FIELDS[i].name], FUNC_HEADER_FIELDS[i].bits)
      copied == [n \in DOMAIN ZeroSmallFuncHeader |->
                  IF n = "flags" THEN lg.flags
                  ELSE StoreBits(lg[n], (CHOOSE f \in {FUNC_HEADER_FIELDS[i] : i \in 1..NumFields} : f.name = n).bits)]
  IN IF over THEN setLargeHeaderOffset(copied, lg.infoOffset) ELSE copied

(* SmallFuncHeader(const FunctionHeader &large) *)
SmallFuncHeader(lg) ==
  CHECK_COPY_FIELD([ZeroSmallFuncHeader EXCEPT !.flags = lg.flags], lg, 1)

-----------------------------------------------------------------------------
(* MAGIC, DELTA_MAGIC, BYTECODE_VERSION, BytecodeFileHeader *)

(* a uint64_t is four 16-bit words, most significant first *)
Complement64(m) == [i \in 1..4 |-> 65535 - m[i]]

(* 0x1F1903C103BC1FC6 *)
MAGIC == <<7961, 961, 956, 8134>>

(* the delta magic without the complement *)
DELTA_MAGIC_NotComplemented == MAGIC

(* ~MAGIC *)
DELTA_MAGIC == Complement64(MAGIC)

BYTECODE_VERSION == 41

(* uint8_t padding[7] *)
PaddingBytes == 7

(* the members of the packed struct BytecodeFileHeader with their sizes in   *)
(* bytes, in declaration order                                               *)
BytecodeFileHeaderLayout ==
  << [name |-> "magic", bytes |-> 8],
     [name |-> "version", bytes |-> 4],
     [name |-> "sourceHash", bytes |-> 20],
     [name |-> "fileLength", bytes |-> 4],
     [name |-> "globalCodeIndex", bytes |-> 4],
     [name |-> "functionCount", bytes |-> 4],
     [name |-> "stringCount", bytes |-> 4],
     [name |-> "identifierCount", bytes |-> 4],
     [name |-> "stringTableBytes", bytes |-> 4],
     [name |-> "stringStorageSize", bytes |-> 4],
     [name |-> "regExpCount", bytes |-> 4],
     [name |-> "regExpStorageSize", bytes |-> 4],
     [name |-> "arrayBufferSize", bytes |-> 4],
     [name |-> "objKeyBufferSize", bytes |-> 4],
     [name |-> "objValueBufferSize", bytes |-> 4],
     [name |-> "cjsModuleCount", bytes |-> 4],
     [name |-> "debugInfoOffset", bytes |-> 4],
     [name |-> "options", bytes |-> 1],
     [name |-> "padding", bytes |-> PaddingBytes] >>

RECURSIVE SumOver(_, _, _)
SumOver(seq, field, i) ==
  IF i > Len(seq) THEN 0 ELSE seq[i][field] + SumOver(seq, field, i + 1)

(* sizeof(BytecodeFileHeader): the struct is packed *)
SizeofBytecodeFileHeader == SumOver(BytecodeFileHeaderLayout, "bytes", 1)

(* bits of SmallFuncHeader: its bit-fields and the FunctionHeaderFlag byte *)
SmallFuncHeaderBits == SumOver(FUNC_HEADER_FIELDS, "bits", 1) + 8

(* sizeof(SmallFuncHeader) *)
SizeofSmallFuncHeader == SmallFuncHeaderBits \div 8

(* sizeof(SmallStringTableEntry): 1 + 1 + 22 + 8 bits *)
SizeofSmallStringTableEntry == (1 + 1 + 22 + 8) \div 8

(* sizeof(OverflowStringTableEntry): two uint32_t *)
SizeofOverflowStringTableEntry == 4 + 4

(* the constructor without std::fill: the padding is whatever was there *)
BytecodeFileHeader_NoFill(magic, version, counts, cjsModuleCount) ==
  [magic |-> magic,
   version |-> version,
   fileLength |-> 0,
   globalCodeIndex |-> 0,
   functionCount |-> counts.functionCount,
   stringCount |-> counts.stringCount,
   identifierCount |-> counts.identifierCount,
   stringTableBytes |-> counts.stringTableBytes,
   stringStorageSize |-> counts.stringStorageSize,
   regExpCount |-> counts.regExpCount,
   regExpStorageSize |-> counts.regExpStorageSize,
   arrayBufferSize |-> counts.arrayBufferSize,
   objKeyBufferSize |-> counts.objKeyBufferSize,
   objValueBufferSize |-> counts.objValueBufferSize,
   cjsModuleCount |-> cjsModuleCount,
   debugInfoOffset |-> 0,
   options |-> 0,
   padding |-> [i \in 1..PaddingBytes |-> 204]]

(* BytecodeFileHeader(magic, version, sourceHash, fileLength, ...): every    *)
(* member is set from its argument and the padding is filled with zeros.     *)
(* fileLength, globalCodeIndex, debugInfoOffset and options are not read by  *)
(* anything modelled here and are 0; the source hash is left out.            *)
BytecodeFileHeader(magic, version, counts, cjsModuleCount) ==
  [magic |-> magic,
   version |-> version,
   fileLength |-> 0,
   globalCodeIndex |-> 0,
   functionCount |-> counts.functionCount,
   stringCount |-> counts.stringCount,
   identifierCount |-> counts.identifierCount,
   stringTableBytes |-> counts.stringTableBytes,
   stringStorageSize |-> counts.stringStorageSize,
   regExpCount |-> counts.regExpCount,
   regExpStorageSize |-> counts.regExpStorageSize,
   arrayBufferSize |-> counts.arrayBufferSize,
   objKeyBufferSize |-> counts.objKeyBufferSize,
   objValueBufferSize |-> counts.objValueBufferSize,
   cjsModuleCount |-> cjsModuleCount,
   debugInfoOffset |-> 0,
   options |-> 0,
   padding |-> [i \in 1..PaddingBytes |-> 0]]

-----------------------------------------------------------------------------
(* BytecodeFileFields and populateFromBuffer *)

(* the array members of BytecodeFileFields, in declaration order *)
SECTIONS ==
  << "functionHeaders", "stringTableEntries", "identifierHashes",
     "stringTableOverflowEntries", "stringStorage", "arrayBuffer",
     "objKeyBuffer", "objValueBuffer", "regExpTable", "regExpStorage",
     "cjsModuleTable", "cjsModuleTableStatic" >>

SectionNames == {SECTIONS[i] : i \in 1..Len(SECTIONS)}

(* a default-constructed ArrayRef: no data, no elements *)
EmptyView == [off |-> -1, n |-> 0, bytes |-> 0]

(* a default-constructed BytecodeFileFields: header{nullptr}, empty arrays *)
DefaultFields == [header |-> -1, views |-> [sec \in SectionNames |-> EmptyView]]

(* sizeof(RegExpTableEntry): offset and length, two uint32_t *)
SizeofRegExpTableEntry == 4 + 4

(* bytes of one element of each section *)
ElemSize(sec) ==
  CASE sec = "functionHeaders" -> SizeofSmallFuncHeader
    [] sec = "stringTableEntries" -> SizeofSmallStringTableEntry
    [] sec = "identifierHashes" -> 4
    [] sec = "stringTableOverflowEntries" -> SizeofOverflowStringTableEntry
    [] sec = "regExpTable" -> SizeofRegExpTableEntry
    [] sec = "cjsModuleTable" -> 4 + 4
    [] sec = "cjsModuleTableStatic" -> 4
    [] OTHER -> 1

(* stringTableBytes counts the compact entries and the overflow entries *)
OverflowBytes(h) == h.stringTableBytes - h.stringCount * SizeofSmallStringTableEntry

(* both module tables filled from the magnitude of the count *)
SectionCount_BothModuleTables(h, sec) ==
  CASE sec = "functionHeaders" -> h.functionCount
    [] sec = "stringTableEntries" -> h.stringCount
    [] sec = "identifierHashes" -> h.identifierCount
    [] sec = "stringTableOverflowEntries" ->
         OverflowBytes(h) \div SizeofOverflowStringTableEntry
    [] sec = "stringStorage" -> h.stringStorageSize
    [] sec = "arrayBuffer" -> h.arrayBufferSize
    [] sec = "objKeyBuffer" -> h.objKeyBufferSize
    [] sec = "objValueBuffer" -> h.objValueBufferSize
    [] sec = "regExpTable" -> h.regExpCount
    [] sec = "regExpStorage" -> h.regExpStorageSize
    [] sec = "cjsModuleTable" ->
         IF h.cjsModuleCount >= 0 THEN h.cjsModuleCount ELSE -h.cjsModuleCount
    [] sec = "cjsModuleTableStatic" ->
         IF h.cjsModuleCount < 0 THEN -h.cjsModuleCount ELSE h.cjsModuleCount

(* the number of elements the header declares for each section; the sign of  *)
(* cjsModuleCount selects which module table has the entries                 *)
SectionCount(h, sec) ==
  CASE sec = "functionHeaders" -> h.functionCount
    [] sec = "stringTableEntries" -> h.stringCount
    [] sec = "identifierHashes" -> h.identifierCount
    [] sec = "stringTableOverflowEntries" ->
         OverflowBytes(h) \div SizeofOverflowStringTableEntry
    [] sec = "stringStorage" -> h.stringStorageSize
    [] sec = "arrayBuffer" -> h.arrayBufferSize
    [] sec = "objKeyBuffer" -> h.objKeyBufferSize
    [] sec = "objValueBuffer" -> h.objValueBufferSize
    [] sec = "regExpTable" -> h.regExpCount
    [] sec = "regExpStorage" -> h.regExpStorageSize
    [] sec = "cjsModuleTable" -> IF h.cjsModuleCount >= 0 THEN h.cjsModuleCount ELSE 0
    [] sec = "cjsModuleTableStatic" -> IF h.cjsModuleCount < 0 THEN -h.cjsModuleCount ELSE 0

(* a section whose declared size contradicts the rest of the header *)
Inconsistent(h, sec) ==
  /\ sec = "stringTableOverflowEntries"
  /\ \/ OverflowBytes(h) < 0
     \/ OverflowBytes(h) % SizeofOverflowStringTableEntry # 0

(* the magic a buffer of the given form starts with *)
ExpectedMagic(form) == IF form = "Delta" THEN DELTA_MAGIC ELSE MAGIC

(* the walk without the bounds check *)
RECURSIVE WalkSections_Unchecked(_, _, _, _, _)
WalkSections_Unchecked(h, len, i, cursor, views) ==
  IF i > Len(SECTIONS)
  THEN [ok |-> TRUE, error |-> "", section |-> "", views |-> views, cursor |-> cursor]
  ELSE LET sec == SECTIONS[i]
           n == SectionCount(h, sec)
           extent == n * ElemSize(sec)
       IN WalkSections_Unchecked(h, len, i + 1, cursor + extent,
            [views EXCEPT ![sec] = [off |-> cursor, n |-> n, bytes |-> extent]])

(* One forward pass over the sections from section i on: the extent of each  *)
(* is checked against the bytes that remain, a view is made over it and the  *)
(* cursor moves past it; the first section that fails ends the pass.         *)
RECURSIVE WalkSections(_, _, _, _, _)
WalkSections(h, len, i, cursor, views) ==
  IF i > Len(SECTIONS)
  THEN [ok |-> TRUE, error |-> "", section |-> "", views |-> views, cursor |-> cursor]
  ELSE LET sec == SECTIONS[i]
           n == SectionCount(h, sec)
           extent == n * ElemSize(sec)
       IN IF Inconsistent(h, sec)
          THEN [ok |-> FALSE, error |-> "inconsistent section size", section |-> sec,
                views |-> views, cursor |-> cursor]
          ELSE IF extent > len - cursor
          THEN [ok |-> FALSE, error |-> "buffer too small for section", section |-> sec,
                views |-> views, cursor |-> cursor]
          ELSE WalkSections(h, len, i + 1, cursor + extent,
                 [views EXCEPT ![sec] = [off |-> cursor, n |-> n, bytes |-> extent]])

(* nothing returned yet *)
NoPop == [ret |-> "none", outError |-> "", section |-> "", touched |-> 0]

(* populateFromBuffer that sets each view as the walk goes and keeps those   *)
(* made before a failure                                                     *)
populateFromBuffer_Partial(f, bytes, form) ==
  IF bytes.len < SizeofBytecodeFileHeader
  THEN [fields |-> f,
        pop |-> [ret |-> "false", outError |-> "buffer smaller than the header",
                 section |-> "header", touched |-> 0]]
  ELSE IF bytes.header.magic # ExpectedMagic(form)
  THEN [fields |-> [f EXCEPT !.header = 0],
        pop |-> [ret |-> "false", outError |-> "wrong magic number",
                 section |-> "header", touched |-> SizeofBytecodeFileHeader]]
  ELSE IF bytes.header.version # BYTECODE_VERSION
  THEN [fields |-> [f EXCEPT !.header = 0],
        pop |-> [ret |-> "false", outError |-> "wrong bytecode version",
                 section |-> "header", touched |-> SizeofBytecodeFileHeader]]
  ELSE LET w == WalkSections(bytes.header, bytes.len, 1, SizeofBytecodeFileHeader,
                             DefaultFields.views)
       IN [fields |-> [header |-> 0, views |-> w.views],
           pop |-> [ret |-> IF w.ok THEN "true" ELSE "false", outError |-> w.error,
                    section |-> w.section, touched |-> w.cursor]]

(* populateFromBuffer(bytes, outError, form): the header is read if the      *)
(* buffer holds one, its magic and version are checked, then the sections    *)
(* are walked; the fields are set only when every section was accepted.      *)
(* touched is the end of the last byte read or covered by a view.            *)
populateFromBuffer(f, bytes, form) ==
  IF bytes.len < SizeofBytecodeFileHeader
  THEN [fields |-> f,
        pop |-> [ret |-> "false", outError |-> "buffer smaller than the header",
                 section |-> "header", touched |-> 0]]
  ELSE IF bytes.header.magic # ExpectedMagic(form)
  THEN [fields |-> f,
        pop |-> [ret |-> "false", outError |-> "wrong magic number",
                 section |-> "header", touched |-> SizeofBytecodeFileHeader]]
  ELSE IF bytes.header.version # BYTECODE_VERSION
  THEN [fields |-> f,
        pop |-> [ret |-> "false", outError |-> "wrong bytecode version",
                 section |-> "header", touched |-> SizeofBytecodeFileHeader]]
  ELSE LET w == WalkSections(bytes.header, bytes.len, 1, SizeofBytecodeFileHeader,
                             DefaultFields.views)
       IN IF w.ok
          THEN [fields |-> [header |-> 0, views |-> w.views],
                pop |-> [ret |-> "true", outError |-> "", section |-> "",
                         touched |-> w.cursor]]
          ELSE [fields |-> f,
                pop |-> [ret |-> "false", outError |-> w.error, section |-> w.section,
                         touched |-> w.cursor]]

(* the header counts all zero *)
ZeroCounts ==
  [functionCount |-> 0, stringCount |-> 0, identifierCount |-> 0,
   stringTableBytes |-> 0, stringStorageSize |-> 0, regExpCount |-> 0,
   regExpStorageSize |-> 0, arrayBufferSize |-> 0, objKeyBufferSize |-> 0,
   objValueBufferSize |-> 0]

(* the file variables before any header is constructed *)
IdleFile ==
  /\ fileHeader = BytecodeFileHeader(MAGIC, BYTECODE_VERSION, ZeroCounts, 0)
  /\ buffer = [len |-> 0, header |-> fileHeader]
  /\ expectedForm = "Execution"
  /\ fields = DefaultFields
  /\ pop = NoPop
  /\ qpc = "start"

-----------------------------------------------------------------------------
(* SmallStringTableEntry *)

INVALID_OFFSET == Pow2(22)
INVALID_LENGTH == Pow2(8) - 1

(* isOverflowed() *)
isOverflowed(e) == e.length = INVALID_LENGTH

(* entry.getOffset() < INVALID_OFFSET && entry.getLength() <= INVALID_LENGTH *)
FitsSmallEntry_LengthOffByOne(e) ==
  /\ U32Lt(e.offset, FromNat(INVALID_OFFSET))
  /\ ~U32Gt(e.length, FromNat(INVALID_LENGTH))

(* entry.getOffset() < INVALID_OFFSET && entry.getLength() < INVALID_LENGTH *)
FitsSmallEntry(e) ==
  /\ U32Lt(e.offset, FromNat(INVALID_OFFSET))
  /\ U32Lt(e.length, FromNat(INVALID_LENGTH))

(* SmallStringTableEntry(entry, overflowOffset); offset is a 22-bit and      *)
(* length an 8-bit field                                                     *)
SmallStringTableEntry(e, ovf) ==
  IF FitsSmallEntry(e)
  THEN [isUTF16 |-> e.isUTF16, isIdentifier |-> e.isIdentifier,
        offset |-> StoreBits(e.offset, 22), length |-> StoreBits(e.length, 8)]
  ELSE [isUTF16 |-> e.isUTF16, isIdentifier |-> e.isIdentifier,
        offset |-> StoreBits(ovf, 22), length |-> INVALID_LENGTH]

(* assert(overflowOffset < INVALID_OFFSET), reached only on the overflow path *)
OverflowOffsetAssertHolds(e, ovf) ==
  FitsSmallEntry(e) \/ U32Lt(ovf, FromNat(INVALID_OFFSET))

-----------------------------------------------------------------------------
(* The function-header machine: a FunctionHeader is constructed, the emitter *)
(* fills its public offset, infoOffset and flags, and a SmallFuncHeader is   *)
(* made from it.                                                             *)

(* no compact entry constructed *)
NoSmallStringTableEntry ==
  [isUTF16 |-> FALSE, isIdentifier |-> FALSE, offset |-> 0, length |-> 0]

(* the string-table variables before any entry is written *)
IdleStr ==
  /\ entry = [offset |-> FromNat(0), length |-> FromNat(0),
              isUTF16 |-> FALSE, isIdentifier |-> FALSE]
  /\ overflowOffset = FromNat(0)
  /\ sentry = NoSmallStringTableEntry
  /\ spc = "none"

(* the function-header variables before any header is constructed *)
IdleFunc ==
  /\ large = FunctionHeader(FromNat(0), FromNat(0), FromNat(0), FromNat(0),
                            FromNat(0), FromNat(0), FromNat(0))
  /\ small = ZeroSmallFuncHeader
  /\ fpc = "filling"
  /\ arg = NoU32
  /\ ret = NoU32

(* Values of a field of the given compact width: an ordinary one, the        *)
(* largest that fits, the smallest that does not.                            *)
FieldVals(typical, bits) ==
  {FromNat(typical), FromNat(Pow2(bits) - 1), FromNat(Pow2(bits))}

(* uint8_t arguments cannot exceed 255 *)
Uint8Vals == {FromNat(0), FromNat(255)}

OffsetVals == FieldVals(96, 25)

(* 32-bit offsets of the large header, up to 0xFFFFFFFF *)
InfoOffsetVals == FieldVals(0, 25) \cup {U32(32769, 2), U32(65535, 65535)}

InitFunc ==
  /\ \E size \in FieldVals(5, 15), paramCount \in FieldVals(2, 7),
        frameSize \in FieldVals(3, 7), envSize \in FieldVals(0, 8),
        functionNameID \in FieldVals(9, 17),
        hiRCacheIndex \in Uint8Vals, hiWCacheIndex \in Uint8Vals :
       large = FunctionHeader(size, paramCount, frameSize, envSize,
                              functionNameID, hiRCacheIndex, hiWCacheIndex)
  /\ small = ZeroSmallFuncHeader
  /\ fpc = "filling"
  /\ arg = NoU32
  /\ ret = NoU32
  /\ IdleStr
  /\ IdleFile

(* header.offset = ... (the field is public) *)
SetOffset(v) ==
  /\ large' = [large EXCEPT !.offset = v]
  /\ small' = ZeroSmallFuncHeader
  /\ fpc' = "filling"
  /\ ret' = NoU32
  /\ UNCHANGED <<arg, strVars, fileVars>>

(* header.infoOffset = ... *)
SetInfoOffset(v) ==
  /\ large' = [large EXCEPT !.infoOffset = v]
  /\ small' = ZeroSmallFuncHeader
  /\ fpc' = "filling"
  /\ ret' = NoU32
  /\ UNCHANGED <<arg, strVars, fileVars>>

(* header.flags.strictMode / hasExceptionHandler / hasDebugInfo = ...; the   *)
(* overflowed bit of a FunctionHeader is never written: only                 *)
(* SmallFuncHeader::setLargeHeaderOffset sets that bit, on the compact       *)
(* record, and SmallFuncHeader's constructor asserts it clear when all       *)
(* fields fit.                                                               *)
SetFlags(strict, handler, debug) ==
  /\ large' = [large EXCEPT !.flags.strictMode = strict,
                            !.flags.hasExceptionHandler = handler,
                            !.flags.hasDebugInfo = debug]
  /\ small' = ZeroSmallFuncHeader
  /\ fpc' = "filling"
  /\ ret' = NoU32
  /\ UNCHANGED <<arg, strVars, fileVars>>

(* SmallFuncHeader small(large) *)
MakeSmallFuncHeader ==
  /\ fpc = "filling"
  /\ small' = SmallFuncHeader(large)
  /\ fpc' = "made"
  /\ UNCHANGED <<large, arg, ret, strVars, fileVars>>

(* small.getLargeHeaderOffset(), which asserts flags.overflowed *)
GetLargeHeaderOffset ==
  /\ fpc = "made"
  /\ small.flags.overflowed
  /\ ret' = getLargeHeaderOffset(small)
  /\ UNCHANGED <<large, small, fpc, arg, strVars, fileVars>>

NextFunc ==
  \/ \E v \in OffsetVals : SetOffset(v)
  \/ \E v \in InfoOffsetVals : SetInfoOffset(v)
  \/ \E strict \in BOOLEAN, handler \in BOOLEAN, debug \in BOOLEAN :
       SetFlags(strict, handler, debug)
  \/ MakeSmallFuncHeader
  \/ GetLargeHeaderOffset

SpecFunc == InitFunc /\ [][NextFunc]_vars

-----------------------------------------------------------------------------
(* The offset-split machine: setLargeHeaderOffset and getLargeHeaderOffset   *)
(* called on a compact header.                                               *)

(* 32-bit values: every power of two, every 2^k - 1, and two mixed patterns  *)
SplitVals ==
  {U32(0, Pow2(k)) : k \in 0..15} \cup {U32(Pow2(k), 0) : k \in 0..15}
  \cup {U32(0, Pow2(k) - 1) : k \in 0..16}
  \cup {U32(Pow2(k) - 1, 65535) : k \in 1..16}
  \cup {U32(4660, 22136), U32(32769, 2)}

InitSplit ==
  /\ \E size \in {FromNat(5), FromNat(32767)},
        paramCount \in {FromNat(2), FromNat(127)},
        envSize \in {FromNat(0), FromNat(255)},
        hiRCacheIndex \in Uint8Vals,
        strict \in BOOLEAN, debug \in BOOLEAN :
       /\ large = [FunctionHeader(size, paramCount, FromNat(3), envSize,
                                  FromNat(9), hiRCacheIndex, FromNat(0))
                     EXCEPT !.flags.strictMode = strict,
                            !.flags.hasDebugInfo = debug]
       /\ small = SmallFuncHeader(large)
  /\ fpc = "made"
  /\ arg = NoU32
  /\ ret = NoU32
  /\ IdleStr
  /\ IdleFile

(* small.setLargeHeaderOffset(x) *)
SetLargeHeaderOffset(x) ==
  /\ fpc = "made"
  /\ small' = setLargeHeaderOffset(small, x)
  /\ arg' = x
  /\ ret' = NoU32
  /\ UNCHANGED <<large, fpc, strVars, fileVars>>

NextSplit ==
  \/ \E x \in SplitVals : SetLargeHeaderOffset(x)
  \/ GetLargeHeaderOffset

SpecSplit == InitSplit /\ [][NextSplit]_vars

-----------------------------------------------------------------------------
(* The string-entry machine: the writer makes a SmallStringTableEntry from a *)
(* StringTableEntry (what getOffset(), getLength(), isUTF16() and            *)
(* isIdentifier() return) and the index of the next overflow entry.          *)

StringOffsetVals ==
  {FromNat(0), FromNat(7), FromNat(Pow2(22) - 1), FromNat(Pow2(22)),
   FromNat(Pow2(22) + 1), U32(65535, 65535)}

(* getLength() masks the UTF-16 bit off, so lengths are below 2^31 *)
StringLengthVals ==
  {FromNat(0), FromNat(1), FromNat(254), FromNat(255), FromNat(256),
   U32(32767, 65535)}

OverflowOffsetVals ==
  {FromNat(0), FromNat(1), FromNat(Pow2(22) - 1), FromNat(Pow2(22))}

StringTableEntryVals ==
  [offset : StringOffsetVals, length : StringLengthVals,
   isUTF16 : BOOLEAN, isIdentifier : BOOLEAN]

InitStr == IdleFunc /\ IdleStr /\ IdleFile

(* SmallStringTableEntry small(e, ovf) where the assert holds, or in a build *)
(* with asserts compiled out                                                 *)
MakeSmallStringTableEntry(e, ovf) ==
  /\ spc # "aborted"
  /\ entry' = e
  /\ overflowOffset' = ovf
  /\ sentry' = SmallStringTableEntry(e, ovf)
  /\ spc' = "made"
  /\ UNCHANGED <<funcVars, fileVars>>

(* the assert fails in a build with asserts: no entry is produced *)
MakeSmallStringTableEntryAbort(e, ovf) ==
  /\ spc # "aborted"
  /\ ~OverflowOffsetAssertHolds(e, ovf)
  /\ entry' = e
  /\ overflowOffset' = ovf
  /\ sentry' = NoSmallStringTableEntry
  /\ spc' = "aborted"
  /\ UNCHANGED <<funcVars, fileVars>>

NextStr ==
  \/ \E e \in StringTableEntryVals, ovf \in OverflowOffsetVals :
       MakeSmallStringTableEntry(e, ovf)
  \/ \E e \in StringTableEntryVals, ovf \in OverflowOffsetVals :
       MakeSmallStringTableEntryAbort(e, ovf)

SpecStr == InitStr /\ [][NextStr]_vars

(* C4: with overflowOffset < 2^22, an entry with offset < 2^22 and length <  *)
(* 255 is stored unchanged and is not overflowed; any other entry, a length  *)
(* of exactly 255 included, gets length 255 and offset overflowOffset and is *)
(* overflowed; the isUTF16 and isIdentifier bits are the entry's either way. *)
C4_SmallStringEntry ==
  (spc = "made" /\ U32Lt(overflowOffset, FromNat(4194304))) =>
    /\ sentry.isUTF16 = entry.isUTF16
    /\ sentry.isIdentifier = entry.isIdentifier
    /\ IF U32Lt(entry.offset, FromNat(4194304)) /\ U32Lt(entry.length, FromNat(255))
       THEN /\ FromNat(sentry.offset) = entry.offset
            /\ FromNat(sentry.length) = entry.length
            /\ ~isOverflowed(sentry)
       ELSE /\ sentry.length = 255
            /\ FromNat(sentry.offset) = overflowOffset
            /\ isOverflowed(sentry)

(* a length of exactly 255 with an offset that fits *)
C4_Witness ==
  /\ spc = "made"
  /\ entry.length = FromNat(255) /\ entry.offset = FromNat(7)
  /\ entry.isUTF16 /\ ~entry.isIdentifier
  /\ overflowOffset = FromNat(4194303)
  /\ sentry.offset = 4194303 /\ isOverflowed(sentry)

-----------------------------------------------------------------------------
(* Properties of the compact function header *)

(* the largest value of each compact width, as the format states them *)
CompactMax ==
  [offset |-> Pow2(25) - 1, paramCount |-> Pow2(7) - 1,
   bytecodeSizeInBytes |-> Pow2(15) - 1, functionName |-> Pow2(17) - 1,
   infoOffset |-> Pow2(25) - 1, frameSize |-> Pow2(7) - 1,
   environmentSize |-> Pow2(8) - 1, highestReadCacheIndex |-> Pow2(8) - 1,
   highestWriteCacheIndex |-> Pow2(8) - 1]

FieldNames == DOMAIN CompactMax

FieldName(i) == FUNC_HEADER_FIELDS[i].name

TooBig(lg, n) == U32Gt(lg[n], FromNat(CompactMax[n]))

AllFit(lg) == \A n \in FieldNames : ~TooBig(lg, n)

(* index, in declaration order, of the first field that does not fit *)
FirstTooBig(lg) ==
  CHOOSE i \in 1..NumFields :
    /\ TooBig(lg, FieldName(i))
    /\ \A j \in 1..(i - 1) : ~TooBig(lg, FieldName(j))

SplitFields == {"offset", "infoOffset"}

(* C1: a SmallFuncHeader made from a FunctionHeader whose overflowed flag is *)
(* clear and whose nine fields each fit their compact width has the          *)
(* overflowed flag clear, and every field and flag equal to the logical one. *)
C1_FitCopiesVerbatim ==
  (fpc = "made" /\ arg = NoU32 /\ ~large.flags.overflowed /\ AllFit(large)) =>
    /\ ~small.flags.overflowed
    /\ small.flags = large.flags
    /\ \A n \in FieldNames : FromNat(small[n]) = large[n]

(* every field at the maximum of its width, with flags set *)
C1_Witness ==
  /\ fpc = "made"
  /\ \A n \in FieldNames : large[n] = FromNat(CompactMax[n])
  /\ large.flags.strictMode /\ large.flags.hasDebugInfo
  /\ small.offset = 33554431 /\ small.functionName = 131071

(* C2: the made SmallFuncHeader has overflowed set exactly when some field   *)
(* exceeds 2^bits - 1, and then getLargeHeaderOffset() is the logical        *)
(* header's infoOffset.                                                      *)
C2_OverflowIffTooBig ==
  (fpc = "made" /\ arg = NoU32) =>
    /\ small.flags.overflowed <=> (\E n \in FieldNames : TooBig(large, n))
    /\ small.flags.overflowed => getLargeHeaderOffset(small) = large.infoOffset
    /\ ret # NoU32 => ret = large.infoOffset

(* paramCount is the first field too big, the large header's offset is      *)
(* 0xFFFFFFFF and was read back                                             *)
C2_Witness ==
  /\ fpc = "made" /\ arg = NoU32
  /\ ~AllFit(large)
  /\ FirstTooBig(large) = 2
  /\ large.infoOffset = U32(65535, 65535)
  /\ ret = U32(65535, 65535)

(* C3: setLargeHeaderOffset(x) then getLargeHeaderOffset() returns x; the    *)
(* low half is in offset and the high half in infoOffset, untruncated.       *)
C3_SplitRoundTrip ==
  arg # NoU32 =>
    /\ small.offset = Lo(arg)
    /\ small.infoOffset = Hi(arg)
    /\ small.flags.overflowed
    /\ ret # NoU32 => ret = arg

C3_Witness ==
  /\ arg = U32(32769, 2)
  /\ ret = U32(32769, 2)

(* C10 as stated: in an overflowed made header the three other flags are the *)
(* logical ones, every field declared after the first that did not fit is    *)
(* zero, and every field before it except offset and infoOffset is the       *)
(* logical value.                                                            *)
C10_AfterFirstAllZero ==
  (fpc = "made" /\ arg = NoU32 /\ small.flags.overflowed) =>
    LET first == FirstTooBig(large) IN
    /\ small.flags.strictMode = large.flags.strictMode
    /\ small.flags.hasExceptionHandler = large.flags.hasExceptionHandler
    /\ small.flags.hasDebugInfo = large.flags.hasDebugInfo
    /\ \A i \in (first + 1)..NumFields : small[FieldName(i)] = 0
    /\ \A i \in 1..(first - 1) :
         FieldName(i) \notin SplitFields => FromNat(small[FieldName(i)]) = large[FieldName(i)]

(* C10 amended: offset and infoOffset hold the two halves of the large       *)
(* header's offset wherever they are declared; every other field after the   *)
(* first that did not fit is zero and every other field before it is the     *)
(* logical value.                                                            *)
C10_OverflowedFrame ==
  (fpc = "made" /\ arg = NoU32 /\ small.flags.overflowed) =>
    LET first == FirstTooBig(large) IN
    /\ small.flags.strictMode = large.flags.strictMode
    /\ small.flags.hasExceptionHandler = large.flags.hasExceptionHandler
    /\ small.flags.hasDebugInfo = large.flags.hasDebugInfo
    /\ small.offset = Lo(large.infoOffset)
    /\ small.infoOffset = Hi(large.infoOffset)
    /\ \A i \in (first + 1)..NumFields :
         FieldName(i) \notin SplitFields => small[FieldName(i)] = 0
    /\ \A i \in 1..(first - 1) :
         FieldName(i) \notin SplitFields => FromNat(small[FieldName(i)]) = large[FieldName(i)]

(* functionName is the first field that does not fit: paramCount and         *)
(* bytecodeSizeInBytes were copied, infoOffset holds a non-zero high half    *)
C10_Witness ==
  /\ fpc = "made" /\ arg = NoU32 /\ small.flags.overflowed
  /\ FirstTooBig(large) = 4
  /\ small.paramCount = 127 /\ small.bytecodeSizeInBytes = 32767
  /\ small.frameSize = 0 /\ large.frameSize = FromNat(127)
  /\ small.infoOffset = 511
  /\ small.flags.hasExceptionHandler

(* setLargeHeaderOffset on any compact header changes nothing but the        *)
(* overflowed flag, offset and infoOffset.                                   *)
SetLargeHeaderOffsetFrame ==
  [][(arg' # arg) =>
       /\ \A n \in FieldNames \ SplitFields : small'[n] = small[n]
       /\ small'.flags = [small.flags EXCEPT !.overflowed = TRUE]]_vars

-----------------------------------------------------------------------------
(* The file machine: a BytecodeFileHeader is constructed, a buffer that      *)
(* starts with it is handed over, and populateFromBuffer is called on a      *)
(* default-constructed BytecodeFileFields.                                   *)

(* the largest count or size a header declares *)
MaxCount == 2

(* at most this many sections are declared non-empty *)
MaxNonEmpty == MaxCount

(* bytes that follow the last section (function bodies, debug info) *)
TrailingBytes == 8

Dims ==
  {"functionCount", "stringCount", "identifierCount", "overflowCount",
   "stringStorageSize", "arrayBufferSize", "objKeyBufferSize",
   "objValueBufferSize", "regExpCount", "regExpStorageSize", "moduleCount"}

CountVecs ==
  {c \in [Dims -> 0..MaxCount] : Cardinality({d \in Dims : c[d] # 0}) <= MaxNonEmpty}

(* stringTableBytes is right, 4 too many, or 4 too few *)
TableSkews == {0, 4, -4}

HeaderCounts(c, skew) ==
  [functionCount |-> c.functionCount, stringCount |-> c.stringCount,
   identifierCount |-> c.identifierCount,
   stringTableBytes |-> c.stringCount * SizeofSmallStringTableEntry
                        + c.overflowCount * SizeofOverflowStringTableEntry + skew,
   stringStorageSize |-> c.stringStorageSize, regExpCount |-> c.regExpCount,
   regExpStorageSize |-> c.regExpStorageSize, arrayBufferSize |-> c.arrayBufferSize,
   objKeyBufferSize |-> c.objKeyBufferSize, objValueBufferSize |-> c.objValueBufferSize]

(* end of section i when the sections are laid out one after the other *)
RECURSIVE EndOf(_, _)
EndOf(h, i) ==
  IF i = 0 THEN SizeofBytecodeFileHeader
  ELSE LET n == SectionCount(h, SECTIONS[i])
       IN EndOf(h, i - 1) + (IF n > 0 THEN n * ElemSize(SECTIONS[i]) ELSE 0)

(* buffer lengths around the header's end and around each section's end *)
BufferLens(h) ==
  {0, SizeofBytecodeFileHeader - 1}
  \cup UNION {{EndOf(h, i) - 1, EndOf(h, i), EndOf(h, i) + TrailingBytes} :
                i \in 0..Len(SECTIONS)}

InitFile == IdleFunc /\ IdleStr /\ IdleFile

(* BytecodeFileHeader header(magic, version, ..., cjsModuleCount, ...) *)
ConstructHeader(magic, version, c, skew, resolved) ==
  /\ qpc = "start"
  /\ HeaderCounts(c, skew).stringTableBytes >= 0
  /\ fileHeader' = BytecodeFileHeader(magic, version, HeaderCounts(c, skew),
                                      IF resolved THEN -c.moduleCount ELSE c.moduleCount)
  /\ qpc' = "built"
  /\ UNCHANGED <<buffer, expectedForm, fields, pop, funcVars, strVars>>

(* a buffer of len bytes that starts with the header's bytes *)
WriteBuffer(len) ==
  /\ qpc = "built"
  /\ buffer' = [len |-> len, header |-> fileHeader]
  /\ qpc' = "written"
  /\ UNCHANGED <<fileHeader, expectedForm, fields, pop, funcVars, strVars>>

(* fields.populateFromBuffer(buffer, &outError, f) *)
Populate(f) ==
  /\ qpc = "written"
  /\ LET r == populateFromBuffer(fields, buffer, f)
     IN /\ fields' = r.fields
        /\ pop' = r.pop
  /\ expectedForm' = f
  /\ qpc' = "populated"
  /\ UNCHANGED <<fileHeader, buffer, funcVars, strVars>>

NextFile ==
  \/ /\ qpc = "start"
     /\ \E magic \in {MAGIC, DELTA_MAGIC},
           version \in {BYTECODE_VERSION, BYTECODE_VERSION - 1},
           c \in CountVecs, skew \in TableSkews, resolved \in BOOLEAN :
          ConstructHeader(magic, version, c, skew, resolved)
  \/ /\ qpc = "built"
     /\ \E len \in BufferLens(fileHeader) : WriteBuffer(len)
  \/ \E f \in {"Execution", "Delta"} : Populate(f)

SpecFile == InitFile /\ [][NextFile]_vars

-----------------------------------------------------------------------------
(* Properties of the file header and of populateFromBuffer *)

SectionIndex(sec) == CHOOSE i \in 1..Len(SECTIONS) : SECTIONS[i] = sec

ViewEnd(v) == v.off + v.bytes

BadMagicOrVersion ==
  \/ buffer.header.magic = MAGIC /\ expectedForm = "Delta"
  \/ buffer.header.magic = DELTA_MAGIC /\ expectedForm = "Execution"
  \/ buffer.header.version # 41

C6_ViewsInsideBuffer ==
  qpc = "populated" =>
    /\ pop.touched <= buffer.len
    /\ \A sec \in SectionNames :
         fields.views[sec].off # -1 => ViewEnd(fields.views[sec]) <= buffer.len
    /\ buffer.len < 96 =>
         pop.ret = "false" /\ pop.outError = "buffer smaller than the header"
    /\ (/\ buffer.len >= 96
        /\ ~BadMagicOrVersion
        /\ buffer.header.functionCount * 16 > buffer.len - 96) =>
         /\ pop.ret = "false"
         /\ pop.section = "functionHeaders"
         /\ pop.outError = "buffer too small for section"
    /\ pop.ret = "true" =>
         /\ \A sec \in SectionNames :
              /\ fields.views[sec].off >= 96
              /\ ViewEnd(fields.views[sec]) <= buffer.len
              /\ fields.views[sec].bytes >= 0
         /\ \A i \in 1..Len(SECTIONS), j \in 1..Len(SECTIONS) :
              i < j => ViewEnd(fields.views[SECTIONS[i]]) <= fields.views[SECTIONS[j]].off

(* the buffer ends one byte inside the second of two declared sections *)
C6_Witness ==
  /\ qpc = "populated"
  /\ buffer.header.functionCount = 1 /\ buffer.header.regExpCount = 2
  /\ buffer.len = 96 + 16 + 16 - 1
  /\ pop.ret = "false" /\ pop.section = "regExpTable"
  /\ pop.touched = 96 + 16

(* a success with two sections in use and bytes left after the last *)
C6_SuccessReached ==
  /\ qpc = "populated" /\ pop.ret = "true"
  /\ fields.views["functionHeaders"].n = 2
  /\ fields.views["stringStorage"].off = 96 + 32
  /\ buffer.len > ViewEnd(fields.views["cjsModuleTableStatic"])

C8_ModuleTableBySign ==
  (qpc = "populated" /\ pop.ret = "true") =>
    LET n == buffer.header.cjsModuleCount
        pairs == fields.views["cjsModuleTable"]
        static == fields.views["cjsModuleTableStatic"]
    IN /\ n < 0 => (static.n = -n /\ static.bytes = 4 * (-n) /\ pairs.n = 0)
       /\ n >= 0 => (pairs.n = n /\ pairs.bytes = 8 * n /\ static.n = 0)
       /\ ~(pairs.n > 0 /\ static.n > 0)

C8_Witness ==
  /\ qpc = "populated" /\ pop.ret = "true"
  /\ buffer.header.cjsModuleCount = -2
  /\ fields.views["cjsModuleTableStatic"].n = 2
  /\ fields.views["cjsModuleTable"].n = 0

(* a success with a positive count *)
C8_PairsReached ==
  /\ qpc = "populated" /\ pop.ret = "true"
  /\ buffer.header.cjsModuleCount = 2
  /\ fields.views["cjsModuleTable"].n = 2

LayoutBytes(name) ==
  (CHOOSE m \in {BytecodeFileHeaderLayout[i] : i \in 1..Len(BytecodeFileHeaderLayout)} :
     m.name = name).bytes

(* C9: the packed file header is 8 + 4 + 20 + 12 * 4 + 4 + 4 + 1 + 7 = 96    *)
(* bytes, a multiple of 32; the compact function header is four 32-bit words *)
(* (25+7, 15+17, 25+7, 8+8+8 and the flag byte), 128 bits = 16 bytes, which  *)
(* divides 32; a constructed BytecodeFileHeader has 7 zero padding bytes.    *)
C9_LayoutAndPadding ==
  /\ LayoutBytes("magic") = 8 /\ LayoutBytes("version") = 4
  /\ LayoutBytes("sourceHash") = 20
  /\ Cardinality({i \in 1..Len(BytecodeFileHeaderLayout) :
                    /\ BytecodeFileHeaderLayout[i].bytes = 4
                    /\ BytecodeFileHeaderLayout[i].name
                         \notin {"version", "cjsModuleCount", "debugInfoOffset"}}) = 12
  /\ LayoutBytes("cjsModuleCount") = 4 /\ LayoutBytes("debugInfoOffset") = 4
  /\ LayoutBytes("options") = 1 /\ LayoutBytes("padding") = 7
  /\ SizeofBytecodeFileHeader = 96
  /\ SizeofBytecodeFileHeader % 32 = 0
  /\ FUNC_HEADER_FIELDS[1].bits + FUNC_HEADER_FIELDS[2].bits = 32
  /\ FUNC_HEADER_FIELDS[3].bits + FUNC_HEADER_FIELDS[4].bits = 32
  /\ FUNC_HEADER_FIELDS[5].bits + FUNC_HEADER_FIELDS[6].bits = 32
  /\ FUNC_HEADER_FIELDS[7].bits + FUNC_HEADER_FIELDS[8].bits
       + FUNC_HEADER_FIELDS[9].bits + 8 = 32
  /\ SmallFuncHeaderBits = 128
  /\ SizeofSmallFuncHeader = 16
  /\ 32 % SizeofSmallFuncHeader = 0
  /\ DOMAIN fileHeader.padding = 1..7
  /\ \A i \in DOMAIN fileHeader.padding : fileHeader.padding[i] = 0
  /\ \A i \in DOMAIN buffer.header.padding : buffer.header.padding[i] = 0

(* a header constructed with counts and a negative module count *)
C9_Witness ==
  /\ qpc = "built"
  /\ fileHeader.functionCount = 2 /\ fileHeader.cjsModuleCount = -1
  /\ fileHeader.magic = DELTA_MAGIC
  /\ \A i \in 1..7 : fileHeader.padding[i] = 0

====
